---- MODULE Spec2Model ----
(***************************************************************************)
(* Model of src/src/App.jsx: the asset base resolver (ensureSlash,         *)
(* normalizePathname, resolveBaseUrl, baseFromPathname), the diagnostic    *)
(* table App evaluates on every render, and the two UI helpers: the        *)
(* Collapsible section and the useInView hook.                             *)
(*                                                                         *)
(* A JavaScript string is a sequence of one-character strings.  A          *)
(* JavaScript value is a record tagged with its type, so that null,        *)
(* undefined, numbers and strings can sit in the same set.  A call's       *)
(* outcome is either a returned value or a thrown error.                   *)
(***************************************************************************)
EXTENDS Integers, Sequences, FiniteSets

VARIABLES
    env,          \* the build-time configuration reached through import.meta
    window,       \* the runtime global: absent, without location, or with one
    pc,           \* position of App's render around its resolveBaseUrl() call
    base,         \* App's `base`: the outcome of resolveBaseUrl()
    pathname,     \* argument handed to baseFromPathname
    callPc,       \* position of the baseFromPathname call
    got,          \* outcome of the baseFromPathname call
    testsPc,      \* position of App's diagnostic table
    testResults,  \* App's testResults
    hostEnv,      \* what hosts the components: a browser, a renderer without DOM
    hash,         \* window.location.hash
    cStatus,      \* lifecycle of the Collapsible
    id,           \* Collapsible's id prop
    defaultOpen,  \* Collapsible's defaultOpen prop
    children,     \* Collapsible's children prop (which content it was given)
    open,         \* Collapsible's open state
    maxH,         \* Collapsible's maxH state
    contentRef,   \* contentRef.current
    effects,      \* Collapsible's passive effects waiting to run
    updates,      \* state updates requested by effects, not yet rendered
    timers,       \* pending setTimeout callbacks, each with the id it closed over
    lastScroll,   \* what the last timer callback did
    clicks,       \* clicks on the button so far
    vStatus,      \* lifecycle of the component that calls useInView
    threshold,    \* useInView's threshold argument, in hundredths
    vRef,         \* ref.current of the ref useInView returns
    ioAvailable,  \* whether the host defines IntersectionObserver
    observer,     \* the observer the last run of the effect left behind
    created,      \* IntersectionObservers constructed so far
    disconnected, \* IntersectionObservers disconnected so far
    inView,       \* useInView's inView state
    vEffect       \* useInView's effect is waiting to run

resolverVars == <<env, window, pc, base>>
pathVars == <<pathname, callPc, got, testsPc, testResults>>
collapsibleVars ==
    <<hostEnv, hash, cStatus, id, defaultOpen, children, open, maxH, contentRef,
      effects, updates, timers, lastScroll, clicks>>
inViewVars ==
    <<vStatus, threshold, vRef, ioAvailable, observer, created, disconnected,
      inView, vEffect>>
uiVars == <<collapsibleVars, inViewVars>>
nonCollapsibleVars == <<resolverVars, pathVars, inViewVars>>
nonInViewVars == <<resolverVars, pathVars, collapsibleVars>>
vars ==
    <<env, window, pc, base, pathname, callPc, got, testsPc, testResults,
      hostEnv, hash, cStatus, id, defaultOpen, children, open, maxH, contentRef,
      effects, updates, timers, lastScroll, clicks,
      vStatus, threshold, vRef, ioAvailable, observer, created, disconnected,
      inView, vEffect>>

-----------------------------------------------------------------------------
(* Bounds of the model *)

\* longest pathname drawn for window.location.pathname and baseFromPathname
MaxPathLen == 4
\* longest configured BASE_URL drawn
MaxBaseLen == 3

\* characters the drawn strings are built from
Chars == {"/", "a", "b"}

SeqsUpTo(n) == UNION {[1..k -> Chars] : k \in 0..n}

-----------------------------------------------------------------------------
(* JavaScript values *)

Str(s) == [t |-> "string", s |-> s, n |-> 0]
Num(n) == [t |-> "number", s |-> <<>>, n |-> n]
Null == [t |-> "null", s |-> <<>>, n |-> 0]
Undefined == [t |-> "undefined", s |-> <<>>, n |-> 0]

\* typeof v
typeof(v) == IF v.t = "null" THEN "object" ELSE v.t

\* ToBoolean(v): "", 0, null and undefined are falsy
Truthy(v) ==
    \/ v.t = "string" /\ Len(v.s) > 0
    \/ v.t = "number" /\ v.n # 0

\* a || b
OrElse(a, b) == IF Truthy(a) THEN a ELSE b

Return(v) == [threw |-> FALSE, value |-> v]
Throw == [threw |-> TRUE, value |-> Undefined]

Slash == <<"/">>

-----------------------------------------------------------------------------
(* String primitives used by the resolver *)

\* number of '/' characters s starts with
RECURSIVE LeadingSlashes(_)
LeadingSlashes(s) ==
    IF s = <<>> \/ Head(s) # "/" THEN 0 ELSE 1 + LeadingSlashes(Tail(s))

\* Variant of replaceSlashRuns with an empty replacement string: a run of
\* slashes is dropped instead of being collapsed to one
RECURSIVE replaceSlashRuns_dropRuns(_)
replaceSlashRuns_dropRuns(s) ==
    IF s = <<>> THEN <<>>
    ELSE LET k == LeadingSlashes(s) IN
         IF k >= 2
         THEN replaceSlashRuns_dropRuns(SubSeq(s, k + 1, Len(s)))
         ELSE <<Head(s)>> \o replaceSlashRuns_dropRuns(Tail(s))

\* s.replace(/\/{2,}/g, "/"): scanning left to right, every maximal run of two
\* or more '/' is replaced by one '/'; every other character is copied
RECURSIVE replaceSlashRuns(_)
replaceSlashRuns(s) ==
    IF s = <<>> THEN <<>>
    ELSE LET k == LeadingSlashes(s) IN
         IF k >= 2
         THEN Slash \o replaceSlashRuns(SubSeq(s, k + 1, Len(s)))
         ELSE <<Head(s)>> \o replaceSlashRuns(Tail(s))

\* s.split("/"): the pieces between separators, empty pieces included
RECURSIVE split(_)
split(s) ==
    IF \A i \in 1..Len(s) : s[i] # "/" THEN <<s>>
    ELSE LET i == CHOOSE j \in 1..Len(s) :
                      s[j] = "/" /\ \A m \in 1..(j - 1) : s[m] # "/"
         IN <<SubSeq(s, 1, i - 1)>> \o split(SubSeq(s, i + 1, Len(s)))

\* parts.filter(Boolean) on an array of strings: the empty strings go
filterBoolean(parts) == SelectSeq(parts, LAMBDA x : x # <<>>)

\* s.endsWith("/")
endsWithSlash(s) == Len(s) > 0 /\ s[Len(s)] = "/"

-----------------------------------------------------------------------------
(* The resolver *)

\* Variant of ensureSlash without the endsWith test: a slash is always appended
ensureSlash_alwaysAppend(v) ==
    IF typeof(v) # "string" \/ Len(v.s) = 0 THEN Slash ELSE v.s \o Slash

\* ensureSlash(s): a JS value in, a string out
ensureSlash(v) ==
    IF typeof(v) # "string" \/ Len(v.s) = 0 THEN Slash
    ELSE IF endsWithSlash(v.s) THEN v.s ELSE v.s \o Slash

\* normalizePathname(p): (p || "/").replace(...); calling .replace on a value
\* that is not a string throws a TypeError
normalizePathname(p) ==
    LET q == OrElse(p, Str(Slash)) IN
    IF typeof(q) = "string" THEN Return(Str(replaceSlashRuns(q.s))) ELSE Throw

\* Variant of configuredBase without the try/catch: a throwing lookup escapes
configuredBase_noCatch(e) ==
    CASE e.kind = "noMeta" -> [found |-> FALSE, out |-> Return(Undefined)]
      [] e.kind = "noEnv" -> [found |-> FALSE, out |-> Return(Undefined)]
      [] e.kind = "throws" -> [found |-> TRUE, out |-> Throw]
      [] e.kind = "env" ->
            IF typeof(e.BASE_URL) = "string" /\ Len(e.BASE_URL.s) > 0
            THEN [found |-> TRUE, out |-> Return(Str(ensureSlash(e.BASE_URL)))]
            ELSE [found |-> FALSE, out |-> Return(Undefined)]

\* The first block of resolveBaseUrl (the try): the configured base when the
\* lookup yields a non-empty string, otherwise nothing; the catch swallows
\* whatever the lookup throws
configuredBase(e) ==
    CASE e.kind = "noMeta" -> [found |-> FALSE, out |-> Return(Undefined)]
      [] e.kind = "noEnv" -> [found |-> FALSE, out |-> Return(Undefined)]
      [] e.kind = "throws" -> [found |-> FALSE, out |-> Return(Undefined)]
      [] e.kind = "env" ->
            IF typeof(e.BASE_URL) = "string" /\ Len(e.BASE_URL.s) > 0
            THEN [found |-> TRUE, out |-> Return(Str(ensureSlash(e.BASE_URL)))]
            ELSE [found |-> FALSE, out |-> Return(Undefined)]

\* Variant of locationBase without the typeof window guard: reading
\* window.location where window is not defined throws
locationBase_noGuard(w) ==
    IF w.kind = "noWindow" THEN [found |-> TRUE, out |-> Throw]
    ELSE IF w.kind = "location"
    THEN LET path == normalizePathname(OrElse(w.pathname, Str(Slash))) IN
         IF path.threw THEN [found |-> TRUE, out |-> Throw]
         ELSE LET parts == filterBoolean(split(path.value.s)) IN
              IF Len(parts) > 0
              THEN [found |-> TRUE, out |-> Return(Str(Slash \o parts[1] \o Slash))]
              ELSE [found |-> FALSE, out |-> Return(Undefined)]
    ELSE [found |-> FALSE, out |-> Return(Undefined)]

\* Variant of locationBase that takes the last segment instead of the first
locationBase_lastPart(w) ==
    IF w.kind = "location"
    THEN LET path == normalizePathname(OrElse(w.pathname, Str(Slash))) IN
         IF path.threw THEN [found |-> TRUE, out |-> Throw]
         ELSE LET parts == filterBoolean(split(path.value.s)) IN
              IF Len(parts) > 0
              THEN [found |-> TRUE,
                    out |-> Return(Str(Slash \o parts[Len(parts)] \o Slash))]
              ELSE [found |-> FALSE, out |-> Return(Undefined)]
    ELSE [found |-> FALSE, out |-> Return(Undefined)]

\* The second block of resolveBaseUrl: the first segment of the location's
\* pathname when a location is present; it lies outside the try
locationBase(w) ==
    IF w.kind = "location"
    THEN LET path == normalizePathname(OrElse(w.pathname, Str(Slash))) IN
         IF path.threw THEN [found |-> TRUE, out |-> Throw]
         ELSE LET parts == filterBoolean(split(path.value.s)) IN
              IF Len(parts) > 0
              THEN [found |-> TRUE, out |-> Return(Str(Slash \o parts[1] \o Slash))]
              ELSE [found |-> FALSE, out |-> Return(Undefined)]
    ELSE [found |-> FALSE, out |-> Return(Undefined)]

\* Variant of resolveBaseUrl with the two blocks in the other order: the
\* location is consulted before the configuration
resolveBaseUrl_locationFirst(e, w) ==
    LET l == locationBase(w) IN
    IF l.found THEN l.out
    ELSE LET c == configuredBase(e) IN
         IF c.found THEN c.out ELSE Return(Str(Slash))

\* resolveBaseUrl(), reading the two ambient values
resolveBaseUrl(e, w) ==
    LET c == configuredBase(e) IN
    IF c.found THEN c.out
    ELSE LET l == locationBase(w) IN
         IF l.found THEN l.out ELSE Return(Str(Slash))

\* Variant of baseFromPathname that takes the last segment instead of the first
baseFromPathname_lastPart(p) ==
    LET path == normalizePathname(OrElse(p, Str(Slash))) IN
    IF path.threw THEN Throw
    ELSE LET parts == filterBoolean(split(path.value.s)) IN
         IF Len(parts) > 0 THEN Return(Str(Slash \o parts[Len(parts)] \o Slash))
         ELSE Return(Str(Slash))

\* Variant of baseFromPathname without any `|| "/"`: .replace is called on the
\* argument as given
baseFromPathname_noCoerce(p) ==
    IF typeof(p) # "string" THEN Throw
    ELSE LET parts == filterBoolean(split(replaceSlashRuns(p.s))) IN
         IF Len(parts) > 0 THEN Return(Str(Slash \o parts[1] \o Slash))
         ELSE Return(Str(Slash))

\* Variant of baseFromPathname that keeps the first two segments
baseFromPathname_twoParts(p) ==
    LET path == normalizePathname(OrElse(p, Str(Slash))) IN
    IF path.threw THEN Throw
    ELSE LET parts == filterBoolean(split(path.value.s)) IN
         IF Len(parts) > 1
         THEN Return(Str(Slash \o parts[1] \o Slash \o parts[2] \o Slash))
         ELSE IF Len(parts) > 0 THEN Return(Str(Slash \o parts[1] \o Slash))
         ELSE Return(Str(Slash))

\* baseFromPathname(pathname)
baseFromPathname(p) ==
    LET path == normalizePathname(OrElse(p, Str(Slash))) IN
    IF path.threw THEN Throw
    ELSE LET parts == filterBoolean(split(path.value.s)) IN
         IF Len(parts) > 0 THEN Return(Str(Slash \o parts[1] \o Slash))
         ELSE Return(Str(Slash))

-----------------------------------------------------------------------------
(* App's diagnostic table *)

N2bio == <<"N", "2", "b", "i", "o">>
indexHtml == <<"i", "n", "d", "e", "x", ".", "h", "t", "m", "l">>

tests == <<
    [name |-> "root", pathname |-> Str(Slash), expected |-> Str(Slash)],
    [name |-> "gh-pages repo root",
     pathname |-> Str(Slash \o N2bio \o Slash),
     expected |-> Str(Slash \o N2bio \o Slash)],
    [name |-> "gh-pages file",
     pathname |-> Str(Slash \o N2bio \o Slash \o indexHtml),
     expected |-> Str(Slash \o N2bio \o Slash)],
    [name |-> "nested path",
     pathname |-> Str(<<"/", "f", "o", "o", "/", "b", "a", "r">>),
     expected |-> Str(<<"/", "f", "o", "o", "/">>)],
    [name |-> "repo no trailing slash",
     pathname |-> Str(Slash \o N2bio),
     expected |-> Str(Slash \o N2bio \o Slash)],
    [name |-> "empty string", pathname |-> Str(<<>>), expected |-> Str(Slash)],
    [name |-> "null coerced", pathname |-> Null, expected |-> Str(Slash)],
    [name |-> "double slashes",
     pathname |-> Str(Slash \o Slash \o N2bio \o Slash \o Slash \o indexHtml),
     expected |-> Str(Slash \o N2bio \o Slash)] >>

\* one row of testResults: got === expected
testRow(t) ==
    LET g == baseFromPathname(t.pathname) IN
    [name |-> t.name, pathname |-> t.pathname, expected |-> t.expected,
     got |-> g, pass |-> (~g.threw /\ g.value = t.expected)]

-----------------------------------------------------------------------------
(* The inputs drawn *)

\* values a pathname can take: any bounded string, the table's pathnames,
\* null, undefined, and numbers (a falsy and a truthy one)
PathnameInputs ==
    {Str(s) : s \in SeqsUpTo(MaxPathLen)}
        \cup {tests[i].pathname : i \in 1..Len(tests)}
        \cup {Null, Undefined, Num(0), Num(1)}

\* values import.meta.env.BASE_URL can take
BaseUrlInputs ==
    {Str(s) : s \in SeqsUpTo(MaxBaseLen)} \cup {Null, Undefined, Num(1)}

\* states of the configuration mechanism: import.meta undefined, import.meta.env
\* falsy, the access throwing, or env present with some BASE_URL
EnvStates ==
    {[kind |-> k, BASE_URL |-> Undefined] : k \in {"noMeta", "noEnv", "throws"}}
        \cup {[kind |-> "env", BASE_URL |-> b] : b \in BaseUrlInputs}

\* states of the runtime global: window undefined, window.location falsy, or a
\* location with some pathname
WindowStates ==
    {[kind |-> k, pathname |-> Undefined] : k \in {"noWindow", "noLocation"}}
        \cup {[kind |-> "location", pathname |-> p] : p \in PathnameInputs}

-----------------------------------------------------------------------------
(* App's render: const base = resolveBaseUrl() *)

PathIdle ==
    /\ pathname = Undefined
    /\ callPc = "idle"
    /\ got = Return(Undefined)
    /\ testsPc = "idle"
    /\ testResults = <<>>

ResolverIdle ==
    /\ env = [kind |-> "noMeta", BASE_URL |-> Undefined]
    /\ window = [kind |-> "noWindow", pathname |-> Undefined]
    /\ pc = "idle"
    /\ base = Return(Undefined)

\* no state update is waiting for a render
NoUpdates == [open |-> "none", maxHSet |-> FALSE, maxH |-> 0]

CollapsibleIdle ==
    /\ hostEnv = "node"
    /\ hash = <<>>
    /\ cStatus = "idle"
    /\ id = "diagrams"
    /\ defaultOpen = FALSE
    /\ children = 1
    /\ open = FALSE
    /\ maxH = 0
    /\ contentRef = "null"
    /\ effects = {}
    /\ updates = NoUpdates
    /\ timers = <<>>
    /\ lastScroll = "none"
    /\ clicks = 0

InViewIdle ==
    /\ vStatus = "idle"
    /\ threshold = 20
    /\ vRef = "null"
    /\ ioAvailable = FALSE
    /\ observer = "none"
    /\ created = 0
    /\ disconnected = 0
    /\ inView = FALSE
    /\ vEffect = FALSE

UiIdle == CollapsibleIdle /\ InViewIdle

Init ==
    /\ env \in EnvStates
    /\ window \in WindowStates
    /\ pc = "render"
    /\ base = Return(Undefined)
    /\ PathIdle
    /\ UiIdle

AppResolveBase ==
    /\ pc = "render"
    /\ base' = resolveBaseUrl(env, window)
    /\ pc' = IF base'.threw THEN "thrown" ELSE "resolved"
    /\ UNCHANGED <<env, window>>
    /\ UNCHANGED pathVars
    /\ UNCHANGED uiVars

Next == AppResolveBase

Spec == Init /\ [][Next]_vars

-----------------------------------------------------------------------------
(* baseFromPathname applied to a drawn pathname, and App's diagnostic table *)

InitPath ==
    /\ pathname \in PathnameInputs
    /\ callPc = "call"
    /\ got = Return(Undefined)
    /\ testsPc = "pending"
    /\ testResults = <<>>
    /\ ResolverIdle
    /\ UiIdle

CallBaseFromPathname ==
    /\ callPc = "call"
    /\ got' = baseFromPathname(pathname)
    /\ callPc' = IF got'.threw THEN "thrown" ELSE "returned"
    /\ UNCHANGED <<pathname, testsPc, testResults>>
    /\ UNCHANGED resolverVars
    /\ UNCHANGED uiVars

\* const testResults = tests.map(...)
AppTests ==
    /\ testsPc = "pending"
    /\ LET rows == [i \in 1..Len(tests) |-> testRow(tests[i])] IN
       IF \E i \in 1..Len(tests) : rows[i].got.threw
       THEN testsPc' = "thrown" /\ testResults' = <<>>
       ELSE testsPc' = "done" /\ testResults' = rows
    /\ UNCHANGED <<pathname, callPc, got>>
    /\ UNCHANGED resolverVars
    /\ UNCHANGED uiVars

NextPath == CallBaseFromPathname \/ AppTests

SpecPath == InitPath /\ [][NextPath]_vars

-----------------------------------------------------------------------------
(* Collapsible: inputs and measures *)

\* clicks on the button that are followed
MaxClicks == 3
\* scroll timers that may be pending at once
MaxTimers == 2
\* different contents (children) a Collapsible is given
NumChildren == 2

\* the ids App gives its two Collapsibles
Ids == {"diagrams", "applications"}

\* window.location.hash: empty, or '#' followed by a name; "media" is the
\* target of App's header link
Fragments == {<<>>} \cup {<<"#", n>> : n \in Ids \cup {"media"}}

\* `#${id}`
hashOf(i) == <<"#", i>>

\* what hosts the component: a browser (window and DOM nodes), a renderer
\* that gives no DOM nodes where window exists, or one where window does not
HostEnvs == {"browser", "noDom", "node"}

hasWindow == hostEnv # "node"

\* padding-top of the class pt-8, in pixels
Pt8 == 32

\* height of the content given as children, in pixels
childHeight(c) == 100 * c

\* el.scrollHeight of the content div as committed: the children's height
\* plus the padding the div has while open
scrollHeight(c, o) == childHeight(c) + (IF o THEN Pt8 ELSE 0)

UpdatesPending == updates # NoUpdates

\* nothing of the Collapsible is waiting to run
Quiescent == effects = {} /\ ~UpdatesPending

\* document.getElementById(i): the section, when it is in the document
sectionInDocument(i) == cStatus = "mounted" /\ hostEnv = "browser" /\ id = i

-----------------------------------------------------------------------------
(* Collapsible: operations.  A render caused by an event commits before the
   event's handler returns, and React flushes the passive effects of a render,
   and renders the updates they request, before the next event is handled;
   only a timer task can run between a render and its effects. *)

InitCollapsible ==
    /\ hostEnv \in HostEnvs
    /\ hash \in (IF hostEnv = "node" THEN {<<>>} ELSE Fragments)
    /\ cStatus = "unmounted"
    /\ id \in Ids
    /\ defaultOpen \in BOOLEAN
    /\ children \in 1..NumChildren
    /\ open = FALSE
    /\ maxH = 0
    /\ contentRef = "null"
    /\ effects = {}
    /\ updates = NoUpdates
    /\ timers = <<>>
    /\ lastScroll = "none"
    /\ clicks = 0
    /\ InViewIdle
    /\ ResolverIdle
    /\ PathIdle

\* First render and commit: useState(defaultOpen), useState(0), the ref is
\* attached when the host gives a node, both effects are scheduled
Mount ==
    /\ cStatus = "unmounted"
    /\ cStatus' = "mounted"
    /\ open' = defaultOpen
    /\ maxH' = 0
    /\ contentRef' = IF hostEnv = "browser" THEN "el" ELSE "null"
    /\ effects' = {"measure", "hash"}
    /\ UNCHANGED <<hostEnv, hash, id, defaultOpen, children, updates, timers,
                   lastScroll, clicks>>
    /\ UNCHANGED nonCollapsibleVars

\* The measure effect (deps [open, children])
MeasureEffect ==
    /\ cStatus = "mounted"
    /\ "measure" \in effects
    /\ effects' = effects \ {"measure"}
    /\ IF contentRef = "null"
       THEN UNCHANGED updates
       ELSE updates' =
              [updates EXCEPT
                  !.maxHSet = TRUE,
                  !.maxH = IF open THEN scrollHeight(children, open) ELSE 0]
    /\ UNCHANGED <<hostEnv, hash, cStatus, id, defaultOpen, children, open, maxH,
                   contentRef, timers, lastScroll, clicks>>
    /\ UNCHANGED nonCollapsibleVars

\* Variant of the hash effect that tests only that there is a fragment
HashEffect_anyFragment ==
    /\ cStatus = "mounted"
    /\ "hash" \in effects
    /\ "measure" \notin effects
    /\ effects' = effects \ {"hash"}
    /\ IF hasWindow /\ hash # <<>>
       THEN /\ updates' = [updates EXCEPT !.open = "true"]
            /\ timers' = Append(timers, id)
       ELSE UNCHANGED <<updates, timers>>
    /\ UNCHANGED <<hostEnv, hash, cStatus, id, defaultOpen, children, open, maxH,
                   contentRef, lastScroll, clicks>>
    /\ UNCHANGED nonCollapsibleVars

\* The hash effect (deps [id]); it is declared second, so it runs second
HashEffect ==
    /\ cStatus = "mounted"
    /\ "hash" \in effects
    /\ "measure" \notin effects
    /\ effects' = effects \ {"hash"}
    /\ IF hasWindow /\ hash = hashOf(id)
       THEN /\ updates' = [updates EXCEPT !.open = "true"]
            /\ timers' = Append(timers, id)
       ELSE UNCHANGED <<updates, timers>>
    /\ UNCHANGED <<hostEnv, hash, cStatus, id, defaultOpen, children, open, maxH,
                   contentRef, lastScroll, clicks>>
    /\ UNCHANGED nonCollapsibleVars

\* The render of the updates the effects requested, and its commit; the
\* measure effect is scheduled again when open changed
Rerender ==
    /\ cStatus = "mounted"
    /\ effects = {}
    /\ UpdatesPending
    /\ open' = IF updates.open = "true" THEN TRUE ELSE open
    /\ maxH' = IF updates.maxHSet THEN updates.maxH ELSE maxH
    /\ updates' = NoUpdates
    /\ effects' = IF open' # open THEN {"measure"} ELSE {}
    /\ UNCHANGED <<hostEnv, hash, cStatus, id, defaultOpen, children, contentRef,
                   timers, lastScroll, clicks>>
    /\ UNCHANGED nonCollapsibleVars

\* Variant of Click for a hash effect without its dependency array: the
\* effect is scheduled again by every render
Click_rearmsHashEffect ==
    /\ cStatus = "mounted"
    /\ Quiescent
    /\ clicks < MaxClicks
    /\ open' = ~open
    /\ effects' = {"measure", "hash"}
    /\ clicks' = clicks + 1
    /\ UNCHANGED <<hostEnv, hash, cStatus, id, defaultOpen, children, maxH,
                   contentRef, updates, timers, lastScroll>>
    /\ UNCHANGED nonCollapsibleVars

\* onClick={() => setOpen((o) => !o)} and the render it causes
Click ==
    /\ cStatus = "mounted"
    /\ Quiescent
    /\ clicks < MaxClicks
    /\ open' = ~open
    /\ effects' = {"measure"}
    /\ clicks' = clicks + 1
    /\ UNCHANGED <<hostEnv, hash, cStatus, id, defaultOpen, children, maxH,
                   contentRef, updates, timers, lastScroll>>
    /\ UNCHANGED nonCollapsibleVars

\* Variant of ParentRender for a measure effect with deps [open] only: other
\* children do not schedule it
ParentRender_childrenNotADep ==
    /\ cStatus = "mounted"
    /\ Quiescent
    /\ \E i \in Ids, c \in 1..NumChildren :
          /\ <<i, c>> # <<id, children>>
          /\ i # id => Len(timers) < MaxTimers
          /\ id' = i
          /\ children' = c
          /\ effects' = (IF i # id THEN {"hash"} ELSE {})
    /\ UNCHANGED <<hostEnv, hash, cStatus, defaultOpen, open, maxH, contentRef,
                   updates, timers, lastScroll, clicks>>
    /\ UNCHANGED nonCollapsibleVars

\* The parent renders the Collapsible with another id or other children
ParentRender ==
    /\ cStatus = "mounted"
    /\ Quiescent
    /\ \E i \in Ids, c \in 1..NumChildren :
          /\ <<i, c>> # <<id, children>>
          /\ i # id => Len(timers) < MaxTimers
          /\ id' = i
          /\ children' = c
          /\ effects' = (IF c # children THEN {"measure"} ELSE {})
                            \cup (IF i # id THEN {"hash"} ELSE {})
    /\ UNCHANGED <<hostEnv, hash, cStatus, defaultOpen, open, maxH, contentRef,
                   updates, timers, lastScroll, clicks>>
    /\ UNCHANGED nonCollapsibleVars

\* The fragment of the URL changes while the page is shown
HashChange ==
    /\ cStatus = "mounted"
    /\ Quiescent
    /\ hasWindow
    /\ \E h \in Fragments : h # hash /\ hash' = h
    /\ UNCHANGED <<hostEnv, cStatus, id, defaultOpen, children, open, maxH,
                   contentRef, effects, updates, timers, lastScroll, clicks>>
    /\ UNCHANGED nonCollapsibleVars

\* Variant of TimerFires without the optional chaining: calling
\* scrollIntoView on null throws
TimerFires_noOptionalChaining ==
    /\ timers # <<>>
    /\ "hash" \notin effects
    /\ ~UpdatesPending
    /\ lastScroll' = IF sectionInDocument(Head(timers)) THEN "scrolled" ELSE "threw"
    /\ timers' = Tail(timers)
    /\ UNCHANGED <<hostEnv, hash, cStatus, id, defaultOpen, children, open, maxH,
                   contentRef, effects, updates, clicks>>
    /\ UNCHANGED nonCollapsibleVars

\* A timer set by the hash effect fires:
\* document.getElementById(id)?.scrollIntoView(...)
TimerFires ==
    /\ timers # <<>>
    /\ "hash" \notin effects
    /\ ~UpdatesPending
    /\ lastScroll' = IF sectionInDocument(Head(timers)) THEN "scrolled" ELSE "noop"
    /\ timers' = Tail(timers)
    /\ UNCHANGED <<hostEnv, hash, cStatus, id, defaultOpen, children, open, maxH,
                   contentRef, effects, updates, clicks>>
    /\ UNCHANGED nonCollapsibleVars

\* The Collapsible is removed; neither effect has a cleanup
Unmount ==
    /\ cStatus = "mounted"
    /\ Quiescent
    /\ cStatus' = "gone"
    /\ contentRef' = "null"
    /\ UNCHANGED <<hostEnv, hash, id, defaultOpen, children, open, maxH, effects,
                   updates, timers, lastScroll, clicks>>
    /\ UNCHANGED nonCollapsibleVars

NextCollapsible ==
    \/ Mount
    \/ MeasureEffect
    \/ HashEffect
    \/ Rerender
    \/ Click
    \/ ParentRender
    \/ HashChange
    \/ TimerFires
    \/ Unmount

\* React runs every scheduled effect and renders every requested update
CollapsibleFairness ==
    /\ WF_vars(MeasureEffect)
    /\ WF_vars(HashEffect)
    /\ WF_vars(Rerender)

-----------------------------------------------------------------------------
(* useInView *)

\* IntersectionObservers one component may construct
MaxObservers == 2

\* the thresholds passed: the default 0.2 and WhiteBoxTransition's 0.15
Thresholds == {15, 20}

InitInView ==
    /\ vStatus = "unmounted"
    /\ threshold \in Thresholds
    /\ vRef \in {"el", "null"}
    /\ ioAvailable \in BOOLEAN
    /\ observer = "none"
    /\ created = 0
    /\ disconnected = 0
    /\ inView = FALSE
    /\ vEffect = FALSE
    /\ CollapsibleIdle
    /\ ResolverIdle
    /\ PathIdle

\* First render and commit of the component that calls the hook:
\* useRef(null), useState(false); the effect is scheduled
MountInView ==
    /\ vStatus = "unmounted"
    /\ vStatus' = "mounted"
    /\ inView' = FALSE
    /\ vEffect' = TRUE
    /\ UNCHANGED <<threshold, vRef, ioAvailable, observer, created, disconnected>>
    /\ UNCHANGED nonInViewVars

\* The effect (deps [threshold]): the cleanup the previous run returned, if
\* any, and then the body; constructing an IntersectionObserver where the
\* host defines none throws
InViewEffect ==
    /\ vStatus = "mounted"
    /\ vEffect
    /\ vEffect' = FALSE
    /\ LET cleaned == IF observer = "observing" THEN disconnected + 1
                      ELSE disconnected
       IN IF vRef = "null"
          THEN /\ observer' = "none"
               /\ disconnected' = cleaned
               /\ UNCHANGED <<vStatus, created>>
          ELSE IF ~ioAvailable
          THEN /\ vStatus' = "thrown"
               /\ observer' = "none"
               /\ disconnected' = cleaned
               /\ UNCHANGED created
          ELSE /\ observer' = "observing"
               /\ created' = created + 1
               /\ disconnected' = cleaned
               /\ UNCHANGED vStatus
    /\ UNCHANGED <<threshold, vRef, ioAvailable, inView>>
    /\ UNCHANGED nonInViewVars

\* The observer's callback: ([entry]) => setInView(entry.isIntersecting)
Intersect ==
    /\ vStatus = "mounted"
    /\ observer = "observing"
    /\ \E b \in BOOLEAN : b # inView /\ inView' = b
    /\ UNCHANGED <<vStatus, threshold, vRef, ioAvailable, observer, created,
                   disconnected, vEffect>>
    /\ UNCHANGED nonInViewVars

\* The component is rendered with another threshold
ThresholdChange ==
    /\ vStatus = "mounted"
    /\ ~vEffect
    /\ created < MaxObservers
    /\ \E th \in Thresholds : th # threshold /\ threshold' = th
    /\ vEffect' = TRUE
    /\ UNCHANGED <<vStatus, vRef, ioAvailable, observer, created, disconnected,
                   inView>>
    /\ UNCHANGED nonInViewVars

\* A render of the component attaches the ref to an element, or stops
\* attaching it; the effect's dependencies are unchanged
RefChange ==
    /\ vStatus = "mounted"
    /\ ~vEffect
    /\ vRef' = IF vRef = "null" THEN "el" ELSE "null"
    /\ UNCHANGED <<vStatus, threshold, ioAvailable, observer, created,
                   disconnected, inView, vEffect>>
    /\ UNCHANGED nonInViewVars

\* The component is removed: the cleanup the last run returned, if any
UnmountInView ==
    /\ vStatus = "mounted"
    /\ ~vEffect
    /\ vStatus' = "gone"
    /\ vRef' = "null"
    /\ observer' = "none"
    /\ disconnected' = IF observer = "observing" THEN disconnected + 1
                       ELSE disconnected
    /\ UNCHANGED <<threshold, ioAvailable, created, inView, vEffect>>
    /\ UNCHANGED nonInViewVars

NextInView ==
    \/ MountInView
    \/ InViewEffect
    \/ Intersect
    \/ ThresholdChange
    \/ RefChange
    \/ UnmountInView

-----------------------------------------------------------------------------
(* The two helpers: a run follows one Collapsible or one caller of useInView;
   they share no state *)

InitUI == InitCollapsible \/ InitInView

NextUI == NextCollapsible \/ NextInView

SpecUI == InitUI /\ [][NextUI]_vars /\ CollapsibleFairness

-----------------------------------------------------------------------------
(* Vocabulary of the properties *)

\* a pathname that is a string or absent (null / undefined)
IsStringOrAbsent(p) == p.t \in {"string", "null", "undefined"}

\* positions of s that hold something other than '/'
NonSlash(s) == {i \in 1..Len(s) : s[i] # "/"}

\* the first maximal run of non-slash characters of s (NonSlash(s) not empty)
FirstSegment(s) ==
    LET i == CHOOSE x \in NonSlash(s) : \A y \in NonSlash(s) : x <= y
        j == CHOOSE x \in i..Len(s) :
                 /\ \A m \in i..x : s[m] # "/"
                 /\ x = Len(s) \/ s[x + 1] = "/"
    IN SubSeq(s, i, j)

\* a pathname with at least one non-empty segment
HasSegment(p) == p.t = "string" /\ NonSlash(p.s) # {}

\* what the base of a string-or-absent pathname is to be
ExpectedBase(p) ==
    IF HasSegment(p) THEN Slash \o FirstSegment(p.s) \o Slash ELSE Slash

\* s begins and ends with '/'
SlashWrapped(s) == Len(s) >= 1 /\ s[1] = "/" /\ s[Len(s)] = "/"

\* no '/' strictly inside s
NoInnerSlash(s) == \A i \in 2..(Len(s) - 1) : s[i] # "/"

\* BasePath: "/" or one non-empty segment wrapped in slashes
IsBasePath(s) == s = Slash \/ (Len(s) >= 3 /\ SlashWrapped(s) /\ NoInnerSlash(s))

\* s with every '/' that directly follows a '/' removed
RECURSIVE collapseFrom(_, _)
collapseFrom(s, i) ==
    IF i > Len(s) THEN <<>>
    ELSE (IF s[i] = "/" /\ i > 1 /\ s[i - 1] = "/" THEN <<>> ELSE <<s[i]>>)
             \o collapseFrom(s, i + 1)

\* collapse(p): runs of slashes become one slash; an absent pathname is left
\* as it is
collapse(p) == IF p.t # "string" THEN p ELSE Str(collapseFrom(p.s, 1))

\* the configuration holds a non-empty string
ConfigNonEmpty(e) ==
    e.kind = "env" /\ e.BASE_URL.t = "string" /\ Len(e.BASE_URL.s) > 0

\* the call of baseFromPathname has ended on a string-or-absent argument
Called == callPc # "call" /\ IsStringOrAbsent(pathname)

\* resolveBaseUrl() has ended
Resolved == pc # "render"

-----------------------------------------------------------------------------
(* Properties of baseFromPathname, under SpecPath *)

\* C1: for a string or absent pathname, baseFromPathname returns "/" when the
\* pathname has no non-empty segment and "/" + first non-empty segment + "/"
\* otherwise, whatever follows that segment; and all eight rows of App's
\* diagnostic table pass with the expected values of the table.
C1_FirstSegmentOnly ==
    /\ Called => got = Return(Str(ExpectedBase(pathname)))
    /\ testsPc # "pending" =>
          /\ testsPc = "done"
          /\ Len(testResults) = 8
          /\ \A i \in 1..Len(testResults) :
                /\ testResults[i].pass
                /\ testResults[i].got = Return(tests[i].expected)
    /\ <<tests[1].expected.s, tests[6].expected.s, tests[7].expected.s>>
          = <<Slash, Slash, Slash>>
    /\ \A i \in {2, 3, 5, 8} : tests[i].expected.s = Slash \o N2bio \o Slash
    /\ tests[4].expected.s = <<"/", "f", "o", "o", "/">>

\* a pathname with two segments was resolved to its first, and the table ran
C1_Witness ==
    /\ callPc = "returned"
    /\ pathname = Str(<<"/", "a", "/", "b">>)
    /\ got = Return(Str(<<"/", "a", "/">>))
    /\ testsPc = "done"

\* C2: for a string or absent pathname, baseFromPathname returns (it does not
\* throw) a string that starts with '/' and ends with '/'.
C2_TotalSlashWrapped ==
    Called =>
        /\ callPc = "returned"
        /\ ~got.threw
        /\ got.value.t = "string"
        /\ SlashWrapped(got.value.s)

\* baseFromPathname returned on an absent argument
C2_Witness ==
    /\ callPc = "returned"
    /\ pathname \in {Null, Undefined}
    /\ got = Return(Str(Slash))

\* C7: for a string or absent pathname p, baseFromPathname(p) equals
\* baseFromPathname(collapse(p)).
C7_CollapseInvariant ==
    Called => got = baseFromPathname(collapse(pathname))

\* the call ended on a pathname that collapse changes and that has a segment
C7_Witness ==
    /\ callPc = "returned"
    /\ pathname = Str(<<"a", "/", "/", "b">>)
    /\ collapse(pathname) = Str(<<"a", "/", "b">>)
    /\ got = Return(Str(<<"/", "a", "/">>))

\* C8: for a string or absent pathname, the result of baseFromPathname has no
\* '/' strictly inside it, so splitting it on '/' leaves at most one non-empty
\* segment.
C8_AtMostOneSegment ==
    Called =>
        /\ ~got.threw
        /\ NoInnerSlash(got.value.s)
        /\ Cardinality({i \in 1..Len(split(got.value.s)) :
                           split(got.value.s)[i] # <<>>}) <= 1

\* the call ended on a pathname with several segments
C8_Witness ==
    /\ callPc = "returned"
    /\ pathname = Str(<<"a", "/", "b", "/">>)
    /\ got = Return(Str(<<"/", "a", "/">>))

-----------------------------------------------------------------------------
(* Properties of resolveBaseUrl, under Spec *)

\* C3: whatever the configuration and the location are, the value
\* resolveBaseUrl returns is a BasePath: "/" or one segment wrapped in slashes,
\* also when it comes from a non-empty configured BASE_URL.
C3_AlwaysBasePath ==
    pc = "resolved" => base.value.t = "string" /\ IsBasePath(base.value.s)

\* C4: with a non-empty string BASE_URL, resolveBaseUrl returns the value
\* derived from the configuration, whatever the window and its location are.
C4_ConfigWins ==
    (Resolved /\ ConfigNonEmpty(env)) =>
        /\ pc = "resolved"
        /\ base = Return(Str(ensureSlash(env.BASE_URL)))

\* a configured base was returned although the location names another segment
C4_Witness ==
    /\ pc = "resolved"
    /\ env = [kind |-> "env", BASE_URL |-> Str(<<"/", "a", "/">>)]
    /\ window = [kind |-> "location", pathname |-> Str(<<"/", "b", "/", "a">>)]
    /\ base = Return(Str(<<"/", "a", "/">>))

\* C5: for every state of the configuration and every state of the window
\* whose pathname is a string or absent, resolveBaseUrl returns a string and
\* throws nothing; with neither a non-empty configuration nor a non-empty path
\* segment the result is "/".
C5_NeverThrows ==
    (Resolved /\ (window.kind = "location" => IsStringOrAbsent(window.pathname))) =>
        /\ pc = "resolved"
        /\ ~base.threw
        /\ base.value.t = "string"
        /\ ((~ConfigNonEmpty(env)
               /\ ~(window.kind = "location" /\ HasSegment(window.pathname)))
            => base = Return(Str(Slash)))

\* the lookup of the configuration threw and the pathname had no segment
C5_Witness ==
    /\ pc = "resolved"
    /\ env.kind = "throws"
    /\ window = [kind |-> "location", pathname |-> Str(<<"/", "/">>)]
    /\ base = Return(Str(Slash))

\* C6: without a non-empty string configuration and with a location present,
\* resolveBaseUrl ends exactly as baseFromPathname(location.pathname) does.
C6_AgreesWithBaseFromPathname ==
    (Resolved /\ ~ConfigNonEmpty(env) /\ window.kind = "location") =>
        base = baseFromPathname(window.pathname)

\* an empty configuration, and a location with two segments
C6_Witness ==
    /\ pc = "resolved"
    /\ env = [kind |-> "env", BASE_URL |-> Str(<<>>)]
    /\ window = [kind |-> "location", pathname |-> Str(<<"/", "a", "/", "b">>)]
    /\ base = Return(Str(<<"/", "a", "/">>))

\* C9: with a non-empty configured base b the result is b when b ends with
\* '/', and b followed by one '/' otherwise; normalizing the result again
\* changes nothing.
C9_TrailingSlashOnce ==
    (Resolved /\ ConfigNonEmpty(env)) =>
        LET b == env.BASE_URL.s IN
        /\ ~base.threw
        /\ (b[Len(b)] = "/" => base.value.s = b)
        /\ (b[Len(b)] # "/" => base.value.s = b \o Slash)
        /\ ensureSlash(base.value) = base.value.s

\* a configured base without a trailing '/' was returned with one appended
C9_Witness ==
    /\ pc = "resolved"
    /\ env = [kind |-> "env", BASE_URL |-> Str(<<"/", "a">>)]
    /\ base = Return(Str(<<"/", "a", "/">>))

\* C10: without a non-empty configuration and without an observable location
\* (window undefined, or window.location missing) resolveBaseUrl returns "/".
C10_RootWithoutLocation ==
    (Resolved /\ ~ConfigNonEmpty(env) /\ window.kind \in {"noWindow", "noLocation"}) =>
        base = Return(Str(Slash))

\* window was undefined and the configuration mechanism unavailable
C10_Witness ==
    /\ pc = "resolved"
    /\ env.kind = "noMeta"
    /\ window.kind = "noWindow"
    /\ base = Return(Str(Slash))

-----------------------------------------------------------------------------
(* Properties of Collapsible and useInView, under SpecUI *)

\* the fragment names the section, where there is a window to ask
FragmentMatches == hasWindow /\ hash = hashOf(id)

\* the hash effect of a closed, never clicked Collapsible is about to run on a
\* matching fragment
AutoOpenDue ==
    /\ cStatus = "mounted"
    /\ ~defaultOpen
    /\ clicks = 0
    /\ "hash" \in effects
    /\ FragmentMatches

\* no scroll timer was ever set: none is pending and none has fired
NoTimerEver == timers = <<>> /\ lastScroll = "none"

\* C11: a Collapsible with defaultOpen = false whose hash effect finds the
\* fragment "#" + id becomes open without a click; a scroll timer is set only
\* in the step that requests the opening, and only on a matching fragment; as
\* long as no fragment matched and no click happened, open keeps its
\* defaultOpen value and no timer is set.
C11_AutoOpenOnMatchingFragment ==
    /\ AutoOpenDue ~> (open /\ clicks = 0)
    /\ [][Len(timers') > Len(timers) =>
             /\ FragmentMatches
             /\ "hash" \in effects
             /\ updates'.open = "true"]_vars
    /\ [][(updates'.open = "true" /\ updates.open = "none") =>
             (FragmentMatches /\ Len(timers') > Len(timers))]_vars
    /\ []((cStatus = "mounted" /\ clicks = 0 /\ NoTimerEver /\ ~UpdatesPending)
             => open = defaultOpen)

\* a closed section was opened by the fragment alone, its scroll still pending
C11_Witness ==
    /\ cStatus = "mounted"
    /\ ~defaultOpen
    /\ open
    /\ clicks = 0
    /\ FragmentMatches
    /\ timers = <<id>>

\* C12: a click negates open and changes no other state of the Collapsible,
\* so without an auto-open open is defaultOpen after an even number of clicks;
\* the hash effect is scheduled only by the mount or by a change of id, open
\* turns false only by a click and turns true only by a click or by the
\* request of a hash effect, so a section closed by a click after an auto-open
\* stays closed while the fragment still matches.
C12_ClickToggles ==
    /\ [][clicks' # clicks =>
             /\ clicks' = clicks + 1
             /\ open' = ~open
             /\ UNCHANGED <<hash, cStatus, id, defaultOpen, children, maxH,
                            contentRef, updates, timers, lastScroll>>
             /\ "hash" \notin effects']_vars
    /\ [][("hash" \in effects' /\ "hash" \notin effects) =>
             (cStatus = "unmounted" \/ id' # id)]_vars
    /\ [][(open /\ ~open' /\ cStatus = "mounted") => clicks' = clicks + 1]_vars
    /\ [][(~open /\ open' /\ cStatus = "mounted") =>
             (clicks' = clicks + 1 \/ updates.open = "true")]_vars
    /\ []((cStatus = "mounted" /\ NoTimerEver /\ ~UpdatesPending) =>
             (open = defaultOpen <=> clicks % 2 = 0))

\* auto-opened, scrolled, then closed by one click: closed at rest although the
\* fragment still matches
C12_Witness ==
    /\ cStatus = "mounted"
    /\ ~defaultOpen
    /\ lastScroll = "scrolled"
    /\ clicks = 1
    /\ ~open
    /\ Quiescent
    /\ FragmentMatches

\* C13: in every quiescent state of a mounted Collapsible whose content
\* element is present, maxH is 0 when open is false and the scrollHeight of
\* the content as committed when open is true.
C13_MaxHeightAgrees ==
    (cStatus = "mounted" /\ Quiescent /\ contentRef = "el") =>
        maxH = (IF open THEN scrollHeight(children, open) ELSE 0)

\* open at rest after clicks and a change of children, with their height
C13_Witness ==
    /\ cStatus = "mounted"
    /\ Quiescent
    /\ contentRef = "el"
    /\ open
    /\ clicks = 2
    /\ children = 2
    /\ maxH = childHeight(2) + Pt8

\* C14: a run of useInView's effect that finds the ref empty constructs no
\* observer, changes no state and throws nothing, and inView is false as long
\* as no observer was constructed; a run of the measure effect that finds
\* contentRef empty requests no update of maxH, which stays 0; a scroll timer
\* that finds the section out of the document does nothing and throws
\* nothing; every observer constructed is disconnected once the threshold
\* changed or the component is gone.
C14_AbsentTargetIsNoOp ==
    /\ [][(vEffect /\ ~vEffect' /\ vRef = "null") =>
             /\ created' = created
             /\ observer' = "none"
             /\ inView' = inView
             /\ vStatus' = vStatus]_vars
    /\ [](created = 0 => (inView = FALSE /\ observer = "none"))
    /\ [][("measure" \in effects /\ "measure" \notin effects' /\ contentRef = "null")
             => UNCHANGED <<updates, maxH, open, cStatus>>]_vars
    /\ [](hostEnv # "browser" => (maxH = 0 /\ ~updates.maxHSet))
    /\ [][(timers # <<>> /\ timers' = Tail(timers)
              /\ ~sectionInDocument(Head(timers))) =>
             /\ lastScroll' = "noop"
             /\ UNCHANGED <<cStatus, open, maxH, updates, effects>>]_vars
    /\ [](lastScroll \in {"none", "scrolled", "noop"})
    /\ [](created - disconnected = (IF observer = "observing" THEN 1 ELSE 0))
    /\ [](vStatus \in {"gone", "thrown"} => observer = "none")
    /\ [][threshold' # threshold => vEffect']_vars

\* the scroll timer of an auto-open fired after the section was removed
C14_Witness ==
    /\ cStatus = "gone"
    /\ hostEnv = "browser"
    /\ lastScroll = "noop"
    /\ timers = <<>>
    /\ open

====
